---- MODULE Spec2Model ----
(***************************************************************************)
(* The sequence-QC pipelines of processors.py (get_sequence_stats,         *)
(* filter_fastq, process_sequences_universal) with the helpers they call   *)
(* (composition.py, format_detect.py, compression_io.py), as a state       *)
(* machine.                                                                *)
(*                                                                         *)
(* Representation.                                                         *)
(*  - A Python str is a sequence of one-character strings.                 *)
(*  - A Python float is the exact rational it stands for, a reduced        *)
(*    fraction [n, d]; binary rounding error of the 64-bit floats is not   *)
(*    modelled.  round(x, 2) IS modelled (Round2).                         *)
(*  - Python None is the record None for structured values, the string     *)
(*    NoFormat for the Optional[str] that detect_file_format returns, and  *)
(*    the sequence NoString for an absent filter string.                   *)
(*  - A Python set of ids is wrapped as [elems |-> S] so that it can be    *)
(*    compared with None.                                                  *)
(*  - The external parser (Bio.SeqIO.parse / FastqGeneralIterator) is      *)
(*    the finite forward-only list arg.content.upstream of raw records;    *)
(*    `pulled` is the number of records it has handed out.  When           *)
(*    arg.content.malformed_tail holds, the text goes on after these       *)
(*    records with a malformed one, on which the parser raises.            *)
(***************************************************************************)
EXTENDS Integers, Sequences, FiniteSets, TLC

VARIABLES
    fn,                \* the function under execution
    arg,               \* its arguments
    pc,                \* position in it: "call", "iter", "return", "done"
    compression,       \* local `compression`
    file_format,       \* local `file_format`
    offset,            \* position of the decoded text handle
    wanted_ids,        \* local `wanted_ids` of filter_fastq
    pulled,            \* records the parser has yielded so far
    rows,              \* local `rows` of process_*_stream
    kept,              \* local `kept` of process_fastq_stream
    total_bases,       \* locals of get_sequence_stats
    total_gc_percent,
    count,
    err,               \* the exception that ended the call, or "none"
    result             \* the returned value, or None

vars == <<fn, arg, pc, compression, file_format, offset, wanted_ids, pulled,
          rows, kept, total_bases, total_gc_percent, count, err, result>>

locals == <<compression, file_format, offset, wanted_ids, pulled, rows, kept,
            total_bases, total_gc_percent, count>>

----------------------------------------------------------------------------
(* Bounds of the model *)

MaxSeqLen == 3      \* longest sequence handed to atgc_content on its own
MaxFilterLen == 3   \* longest filter string handed to _parse_id_list on its own
MaxRecs == 3        \* longest upstream record list
MaxCap == 2         \* largest record cap

----------------------------------------------------------------------------
(* Python values *)

None == [none |-> TRUE]
NoFormat == "None"
NoString == <<"None">>
NoError == "none"

Whitespace == {" ", "\t", "\n", "\r"}

SeqsUpTo(S, n) == UNION {[1..k -> S] : k \in 0..n}

RECURSIVE GCD(_, _)
GCD(a, b) == IF b = 0 THEN a ELSE GCD(b, a % b)

\* the float n/d, d > 0, n >= 0
Frac(n, d) == LET g == GCD(n, d) IN [n |-> n \div g, d |-> d \div g]

FracAdd(x, y) == Frac(x.n * y.d + y.n * x.d, x.d * y.d)

FracDiv(x, k) == Frac(x.n, x.d * k)

\* round(x, 2): nearest multiple of 0.01, ties to the even one
Round2(x) ==
    LET a == 100 * x.n
        q == a \div x.d
        r == a % x.d
        h == IF 2 * r < x.d THEN q
             ELSE IF 2 * r > x.d THEN q + 1
             ELSE IF q % 2 = 0 THEN q ELSE q + 1
    IN Frac(h, 100)

Lowers == <<"a", "b", "c", "e", "f", "g", "k", "l", "m", "n", "q", "r", "s", "t", "u", "x", "z">>
Uppers == <<"A", "B", "C", "E", "F", "G", "K", "L", "M", "N", "Q", "R", "S", "T", "U", "X", "Z">>

\* str.upper() / str.lower() on one character
ToUpper(ch) ==
    IF \E i \in DOMAIN Lowers : Lowers[i] = ch
    THEN Uppers[CHOOSE i \in DOMAIN Lowers : Lowers[i] = ch] ELSE ch

ToLower(ch) ==
    IF \E i \in DOMAIN Uppers : Uppers[i] = ch
    THEN Lowers[CHOOSE i \in DOMAIN Uppers : Uppers[i] = ch] ELSE ch

Upper(s) == [i \in 1..Len(s) |-> ToUpper(s[i])]
Lower(s) == [i \in 1..Len(s) |-> ToLower(s[i])]

LStrip(s) ==
    LET visible == {i \in DOMAIN s : s[i] \notin Whitespace}
        first == CHOOSE i \in visible : \A j \in 1..(i - 1) : j \notin visible
    IN IF visible = {} THEN <<>> ELSE SubSeq(s, first, Len(s))

RECURSIVE RStrip(_)
RStrip(s) ==
    IF s # <<>> /\ s[Len(s)] \in Whitespace
    THEN RStrip(SubSeq(s, 1, Len(s) - 1)) ELSE s

Strip(s) == RStrip(LStrip(s))

StartsWith(s, p) == Len(s) >= Len(p) /\ SubSeq(s, 1, Len(p)) = p

EndsWith(s, p) == Len(s) >= Len(p) /\ SubSeq(s, Len(s) - Len(p) + 1, Len(s)) = p

----------------------------------------------------------------------------
(* composition.py *)

CANONICAL == {"A", "C", "G", "T"}

ValidModes == {"raw", "canonical"}

InvalidMode == "ValueError: mode must be 'raw' or 'canonical'"

ZeroCounts == [A |-> 0, T |-> 0, G |-> 0, C |-> 0, N |-> 0, AMB |-> 0]

\* one pass of the loop body of atgc_content over character ch0
Classify(counts, ch0) ==
    LET ch == IF ch0 = "U" THEN "T" ELSE ch0
    IN IF ch \in CANONICAL THEN [counts EXCEPT ![ch] = @ + 1]
       ELSE IF ch = "N" THEN [counts EXCEPT !.N = @ + 1]
       ELSE [counts EXCEPT !.AMB = @ + 1]

RECURSIVE CountBases(_, _)
CountBases(counts, s) ==
    IF s = <<>> THEN counts ELSE CountBases(Classify(counts, Head(s)), Tail(s))

\* atgc_content without the strip() of its first line
atgc_content_unstripped(seq, m) ==
    LET s == Upper(seq)
        counts == CountBases(ZeroCounts, s)
        denom == IF m = "raw" THEN Len(s)
                 ELSE counts.A + counts.T + counts.G + counts.C
        fraction(b) == IF denom > 0 THEN Frac(counts[b], denom) ELSE None
    IN IF m \notin ValidModes THEN [raise |-> InvalidMode]
       ELSE [counts |-> counts, denom |-> denom,
             fractions |-> [A |-> fraction("A"), T |-> fraction("T"),
                            G |-> fraction("G"), C |-> fraction("C")]]

\* atgc_content(seq, mode): a BaseComposition, or [raise |-> InvalidMode]
atgc_content(seq, m) ==
    LET s == Upper(Strip(seq))
        counts == CountBases(ZeroCounts, s)
        denom == IF m = "raw" THEN Len(s)
                 ELSE counts.A + counts.T + counts.G + counts.C
        fraction(b) == IF denom > 0 THEN Frac(counts[b], denom) ELSE None
    IN IF m \notin ValidModes THEN [raise |-> InvalidMode]
       ELSE [counts |-> counts, denom |-> denom,
             fractions |-> [A |-> fraction("A"), T |-> fraction("T"),
                            G |-> fraction("G"), C |-> fraction("C")]]

\* gc_fraction giving 0.0 instead of None on a zero denominator
gc_fraction_zero_for_undefined(seq, m) ==
    LET comp == atgc_content(seq, m)
    IN IF "raise" \in DOMAIN comp THEN comp
       ELSE IF comp.denom = 0 THEN Frac(0, 1)
       ELSE Frac(comp.counts.G + comp.counts.C, comp.denom)

\* gc_fraction(seq, mode): a float, None, or [raise |-> InvalidMode]
gc_fraction(seq, m) ==
    LET comp == atgc_content(seq, m)
    IN IF "raise" \in DOMAIN comp THEN comp
       ELSE IF comp.denom = 0 THEN None
       ELSE Frac(comp.counts.G + comp.counts.C, comp.denom)

Raises(v) == "raise" \in DOMAIN v

----------------------------------------------------------------------------
(* format_detect.py *)

FASTA_EXT == {<<".", "f", "a">>, <<".", "f", "a", "s", "t", "a">>}
FASTQ_EXT == {<<".", "f", "q">>, <<".", "f", "a", "s", "t", "q">>}
GENBANK_EXT == {<<".", "g", "b">>, <<".", "g", "b", "k">>}
EMBL_EXT == {<<".", "e", "m", "b", "l">>}

detect_file_format(filename) ==
    LET name == Lower(filename)
    IN IF \E ext \in FASTA_EXT : EndsWith(name, ext) THEN "fasta"
       ELSE IF \E ext \in FASTQ_EXT : EndsWith(name, ext) THEN "fastq"
       ELSE IF \E ext \in GENBANK_EXT : EndsWith(name, ext) THEN "genbank"
       ELSE IF \E ext \in EMBL_EXT : EndsWith(name, ext) THEN "embl"
       ELSE NoFormat

sniff_fasta_fastq(prefix) ==
    LET s == LStrip(prefix)
    IN IF StartsWith(s, <<">">>) THEN "fasta"
       ELSE IF StartsWith(s, <<"@">>) THEN "fastq"
       ELSE NoFormat

----------------------------------------------------------------------------
(* compression_io.py *)

GZIP_MAGIC == <<31, 139>>
BZIP2_MAGIC == <<66, 90, 104>>

detect_compression_from_bytes(data) ==
    IF StartsWith(data, GZIP_MAGIC) THEN "gzip"
    ELSE IF StartsWith(data, BZIP2_MAGIC) THEN "bzip2"
    ELSE "none"

----------------------------------------------------------------------------
(* processors.py: helpers *)

\* str.replace(a, b) for one-character a and b
Replace(s, a, b) == [i \in 1..Len(s) |-> IF s[i] = a THEN b ELSE s[i]]

\* str.split(sep) for a one-character sep: the list of pieces, empty ones kept
RECURSIVE Split(_, _)
Split(s, sep) ==
    IF s = <<>> THEN << <<>> >>
    ELSE LET rest == Split(Tail(s), sep)
         IN IF Head(s) = sep THEN << <<>> >> \o rest
            ELSE << <<Head(s)>> \o Head(rest) >> \o Tail(rest)

PySet(S) == [elems |-> S]

\* _parse_id_list(filter_ids): None or a non-empty set of ids
_parse_id_list(filter_ids) ==
    IF filter_ids = NoString \/ filter_ids = <<>> THEN None
    ELSE LET raw == Split(Replace(Replace(filter_ids, "\n", ","), " ", ","), ",")
             ids == {Strip(raw[i]) : i \in {j \in DOMAIN raw : Strip(raw[j]) # <<>>}}
         IN IF ids = {} THEN None ELSE PySet(ids)

\* the prefix of s up to (not including) its first whitespace character
RECURSIVE UntilWhitespace(_)
UntilWhitespace(s) ==
    IF s = <<>> \/ Head(s) \in Whitespace THEN <<>>
    ELSE <<Head(s)>> \o UntilWhitespace(Tail(s))

\* title.split(None, 1): at most two pieces, the first whitespace-delimited
\* token and what follows it; the empty list when title has no token
SplitFirst(title) ==
    LET s == LStrip(title)
        tok == UntilWhitespace(s)
        rest == LStrip(SubSeq(s, Len(tok) + 1, Len(s)))
    IN IF s = <<>> THEN <<>>
       ELSE IF rest = <<>> THEN <<tok>>
       ELSE <<tok, rest>>

IndexError == "IndexError: list index out of range"

\* the Phred+33 score ord(c) - 33 of the quality characters of the model
Ord(c) ==
    CASE c = "!" -> 33
      [] c = "5" -> 53
      [] c = "?" -> 63
      [] c = "I" -> 73

RECURSIVE SumScores(_)
SumScores(qual) ==
    IF qual = <<>> THEN 0 ELSE (Ord(Head(qual)) - 33) + SumScores(Tail(qual))

----------------------------------------------------------------------------
(* State shared by every specification *)

Modes == {"canonical", "raw", "weird"}

InitLocals ==
    /\ pc = "call"
    /\ compression = NoFormat
    /\ file_format = NoFormat
    /\ offset = 0
    /\ wanted_ids = None
    /\ pulled = 0
    /\ rows = <<>>
    /\ kept = 0
    /\ total_bases = 0
    /\ total_gc_percent = Frac(0, 1)
    /\ count = 0
    /\ err = NoError
    /\ result = None

\* the call returns value v
Return(v) == pc' = "done" /\ result' = v /\ err' = NoError

\* the call ends with exception e
Raise(e) == pc' = "done" /\ err' = e /\ result' = None

----------------------------------------------------------------------------
(* atgc_content on its own *)

CompChars == {"A", "c", "G", "t", "u", "N", "r", " "}

InitComp ==
    /\ fn = "atgc_content"
    /\ arg \in [seq : SeqsUpTo(CompChars, MaxSeqLen), mode : Modes]
    /\ InitLocals

atgc_content_call ==
    /\ fn = "atgc_content" /\ pc = "call"
    /\ LET comp == atgc_content(arg.seq, arg.mode)
       IN IF Raises(comp) THEN Raise(comp.raise) ELSE Return(comp)
    /\ UNCHANGED <<fn, arg, locals>>

NextComp == atgc_content_call

SpecComp == InitComp /\ [][NextComp]_vars

\* normalization as the specification words it: trim, upper-case, U -> T
Normalized(s) ==
    LET keep == {i \in DOMAIN s : s[i] \notin Whitespace}
        lo == CHOOSE i \in keep : \A j \in keep : i <= j
        hi == CHOOSE i \in keep : \A j \in keep : i >= j
        t == IF keep = {} THEN <<>> ELSE SubSeq(s, lo, hi)
    IN [i \in 1..Len(t) |-> IF ToUpper(t[i]) = "U" THEN "T" ELSE ToUpper(t[i])]

SwapCase(ch) == IF ToUpper(ch) # ch THEN ToUpper(ch) ELSE ToLower(ch)

Paddings == SeqsUpTo({" ", "\n"}, 1)

\* every re-casing of s, padded with whitespace on either side
Variants(s) ==
    {l \o [i \in 1..Len(s) |-> IF i \in mask THEN SwapCase(s[i]) ELSE s[i]] \o r :
        l \in Paddings, r \in Paddings, mask \in SUBSET (1..Len(s))}

\* C10: atgc_content(s, "canonical").denom is the number of A, T, G, C in the
\* normalized s (trimmed, upper-cased, U rewritten to T), atgc_content(s,
\* "raw").denom is the length of the normalized s, and the whole result is
\* the same for every re-casing and whitespace-padding of s.
C10_DenomAndCaseInvariance ==
    (fn = "atgc_content" /\ pc = "done" /\ arg.mode \in ValidModes) =>
        LET norm == Normalized(arg.seq)
        IN /\ err = NoError
           /\ arg.mode = "canonical" =>
                  result.denom = Cardinality({i \in DOMAIN norm : norm[i] \in {"A", "T", "G", "C"}})
           /\ arg.mode = "raw" => result.denom = Len(norm)
           /\ \A v \in Variants(arg.seq) : atgc_content(v, arg.mode) = result

\* a padded, lower-case RNA sequence with an N has been analysed in raw mode
C10_Witness ==
    /\ fn = "atgc_content" /\ pc = "done" /\ arg.mode = "raw"
    /\ arg.seq = <<" ", "u", "N">>
    /\ result.denom = 2 /\ result.counts.T = 1 /\ result.counts.N = 1

----------------------------------------------------------------------------
(* _parse_id_list on its own *)

FilterChars == {"a", "b", ",", " ", "\n", "\t"}

InitParse ==
    /\ fn = "_parse_id_list"
    /\ arg \in [filter_ids : {NoString} \cup SeqsUpTo(FilterChars, MaxFilterLen)]
    /\ InitLocals

_parse_id_list_call ==
    /\ fn = "_parse_id_list" /\ pc = "call"
    /\ Return(_parse_id_list(arg.filter_ids))
    /\ UNCHANGED <<fn, arg, locals>>

NextParse == _parse_id_list_call

SpecParse == InitParse /\ [][NextParse]_vars

----------------------------------------------------------------------------
(* Inputs of the three pipelines *)

\* raw records the external parser can yield: id and title (description) are
\* what SeqIO.parse gives for a FASTA-like record, title/seq/qual what
\* FastqGeneralIterator gives; a title has no trailing whitespace
RawRecords ==
    { [id |-> <<"a">>, title |-> <<"a">>, seq |-> <<"G", "A">>, qual |-> <<"I", "5">>],
      [id |-> <<"b">>, title |-> <<"b", " ", "x">>, seq |-> <<"N">>, qual |-> <<"!">>],
      [id |-> <<>>, title |-> <<>>, seq |-> <<"C">>, qual |-> <<"I">>],
      [id |-> <<"a">>, title |-> <<"a">>, seq |-> <<>>, qual |-> <<>>] }

FileNames ==
    { <<"s", ".", "F", "q">>,
      <<"s", ".", "f", "q", ".", "g", "z">>,
      <<"s", ".", "f", "a">>,
      <<"s", ".", "g", "b">>,
      <<"s", ".", "x">> }

\* first bytes of the uploaded data: gzip, plain
DataHeads == { <<31, 139, 8>>, <<64, 97, 10>> }

\* head of the decoded text: FASTQ, FASTA, FASTQ after a blank line,
\* GenBank (LOCUS ...), an empty file
TextHeads == { <<"@">>, <<">">>, <<"\n", "@">>, <<"L">>, <<>> }

\* the grammar a decoded text is written in, by its first visible character
Grammar(text) ==
    LET s == LStrip(text)
    IN IF s = <<>> THEN "empty"
       ELSE IF s[1] = "@" THEN "fastq"
       ELSE IF s[1] = ">" THEN "fasta"
       ELSE "genbank"

CompressionSuffixes == {<<".", "g", "z">>, <<".", "b", "z", "2">>}

\* the format a file name declares, a compression suffix set aside
NamedFormat(filename) ==
    LET name == Lower(filename)
    IN IF \E z \in CompressionSuffixes : EndsWith(name, z)
       THEN LET z == CHOOSE z \in CompressionSuffixes : EndsWith(name, z)
            IN detect_file_format(SubSeq(name, 1, Len(name) - Len(z)))
       ELSE detect_file_format(name)

\* uploads with a text head among texts: a file without text has no records,
\* a file with text has some, and a file named after a format is written in
\* that format
ContentsOver(filename, texts, tails) ==
    { c \in [data : DataHeads, text : texts, upstream : SeqsUpTo(RawRecords, MaxRecs),
             malformed_tail : tails] :
        /\ (c.upstream = <<>>) <=> (Grammar(c.text) = "empty")
        /\ c.malformed_tail => c.upstream # <<>>
        /\ \/ NamedFormat(filename) \in {NoFormat, Grammar(c.text)}
           \/ Grammar(c.text) = "empty" }

\* the well-formed uploads of the model
Contents(filename) == ContentsOver(filename, TextHeads, {FALSE})

Caps == 1..MaxCap

FilterStrings ==
    { NoString, <<>>, <<",", " ">>, <<"a">>, <<"a", ",", "b">>, <<"a", "\t", "b">> }

SniffLen == 2048

Take(s, n) == SubSeq(s, 1, IF Len(s) < n THEN Len(s) ELSE n)

\* the two pipelines word the message differently after this common start
UnresolvedFormat == "ValueError: Could not detect file format"
InvalidOperation == "ValueError: This function only accepts FASTQ files"

\* resolve_format without the seek(0) after the sniff
resolve_format_without_seek(filename, text) ==
    LET by_name == detect_file_format(filename)
        prefix == Take(text, SniffLen)
        after_read == Len(prefix)
    IN IF by_name # NoFormat THEN [file_format |-> by_name, offset |-> 0]
       ELSE [file_format |-> sniff_fasta_fastq(prefix), offset |-> after_read]

\* the format resolution shared by get_sequence_stats and
\* process_sequences_universal: extension first, then a sniff of the first
\* 2048 characters followed by seek(0); gives the format and the handle offset
resolve_format(filename, text) ==
    LET by_name == detect_file_format(filename)
        prefix == Take(text, SniffLen)
        after_read == Len(prefix)
        after_seek == 0
    IN IF by_name # NoFormat THEN [file_format |-> by_name, offset |-> 0]
       ELSE [file_format |-> sniff_fasta_fastq(prefix), offset |-> after_seek]

UpstreamParseError == "ValueError: malformed record"

\* the records the parser yields from the handle where it stands: all of them
\* from offset 0; the texts of the model that a sniff resolves are no longer
\* than one sniff, so that past a sniff that was not rewound nothing is left
ParserRecords ==
    IF offset = 0 THEN arg.content.upstream ELSE <<>>

\* the parser has no record left: it stops, or raises on the malformed tail
\* (offset 0) of the text
ParserEnds ==
    IF arg.content.malformed_tail /\ offset = 0
    THEN Raise(UpstreamParseError)
    ELSE pc' = "return" /\ UNCHANGED <<err, result>>

----------------------------------------------------------------------------
(* get_sequence_stats *)

InitStats ==
    /\ fn = "get_sequence_stats"
    /\ \E filename \in FileNames, m \in Modes :
         \E content \in Contents(filename) :
            arg = [content |-> content, filename |-> filename, mode |-> m]
    /\ InitLocals

\* open_text_handle and the format resolution, up to the first loop
get_sequence_stats_open ==
    /\ fn = "get_sequence_stats" /\ pc = "call"
    /\ compression' = detect_compression_from_bytes(arg.content.data)
    /\ LET r == resolve_format(arg.filename, arg.content.text)
       IN /\ file_format' = r.file_format
          /\ offset' = r.offset
          /\ IF r.file_format = NoFormat
             THEN Raise(UnresolvedFormat)
             ELSE pc' = "iter" /\ UNCHANGED <<err, result>>
    /\ UNCHANGED <<fn, arg, wanted_ids, pulled, rows, kept, total_bases,
                   total_gc_percent, count>>

\* 100 * gc
Percent(gc) == Frac(100 * gc.n, gc.d)

\* StatsLoop that leaves a record with undefined GC out of the count
StatsLoopSkippingUndefined ==
    IF pulled = Len(ParserRecords)
    THEN /\ ParserEnds
         /\ UNCHANGED <<pulled, total_bases, total_gc_percent, count>>
    ELSE LET seq == ParserRecords[pulled + 1].seq
             gc == gc_fraction(seq, arg.mode)
         IN /\ pulled' = pulled + 1
            /\ total_bases' = total_bases + Len(seq)
            /\ IF Raises(gc)
               THEN Raise(gc.raise) /\ UNCHANGED <<total_gc_percent, count>>
               ELSE /\ total_gc_percent' =
                         FracAdd(total_gc_percent,
                                 IF gc = None THEN Frac(0, 1) ELSE Percent(gc))
                    /\ count' = IF gc = None THEN count ELSE count + 1
                    /\ UNCHANGED <<pc, err, result>>

\* one iteration of either loop of get_sequence_stats over a record with
\* sequence seq, or the end of the loop when the parser is exhausted
StatsLoop ==
    IF pulled = Len(ParserRecords)
    THEN /\ ParserEnds
         /\ UNCHANGED <<pulled, total_bases, total_gc_percent, count>>
    ELSE LET seq == ParserRecords[pulled + 1].seq
             gc == gc_fraction(seq, arg.mode)
         IN /\ pulled' = pulled + 1
            /\ total_bases' = total_bases + Len(seq)
            /\ IF Raises(gc)
               THEN Raise(gc.raise) /\ UNCHANGED <<total_gc_percent, count>>
               ELSE /\ total_gc_percent' =
                         FracAdd(total_gc_percent,
                                 IF gc = None THEN Frac(0, 1) ELSE Percent(gc))
                    /\ count' = count + 1
                    /\ UNCHANGED <<pc, err, result>>

get_sequence_stats_fastq_loop ==
    /\ fn = "get_sequence_stats" /\ pc = "iter" /\ file_format = "fastq"
    /\ StatsLoop
    /\ UNCHANGED <<fn, arg, compression, file_format, offset, wanted_ids, rows, kept>>

get_sequence_stats_seqio_loop ==
    /\ fn = "get_sequence_stats" /\ pc = "iter" /\ file_format # "fastq"
    /\ StatsLoop
    /\ UNCHANGED <<fn, arg, compression, file_format, offset, wanted_ids, rows, kept>>

get_sequence_stats_return ==
    /\ fn = "get_sequence_stats" /\ pc = "return"
    /\ LET avg_len == IF count # 0 THEN Frac(total_bases, count) ELSE Frac(0, 1)
           avg_gc == IF count # 0 THEN FracDiv(total_gc_percent, count) ELSE Frac(0, 1)
       IN Return([filename |-> arg.filename,
                  format |-> file_format,
                  compression |-> compression,
                  total_sequences |-> count,
                  total_bases |-> total_bases,
                  average_length |-> Round2(avg_len),
                  average_gc_content |-> Round2(avg_gc)])
    /\ UNCHANGED <<fn, arg, locals>>

NextStats ==
    \/ get_sequence_stats_open
    \/ get_sequence_stats_fastq_loop
    \/ get_sequence_stats_seqio_loop
    \/ get_sequence_stats_return

SpecStats == InitStats /\ [][NextStats]_vars

\* GC percentage of one sequence as the specification words it, an undefined
\* one (zero denominator) standing for 0
GCPercentOrZero(seq, m) ==
    LET norm == Normalized(seq)
        gc == Cardinality({i \in DOMAIN norm : norm[i] \in {"G", "C"}})
        den == IF m = "raw" THEN Len(norm)
               ELSE Cardinality({i \in DOMAIN norm : norm[i] \in {"A", "T", "G", "C"}})
    IN IF den = 0 THEN Frac(0, 1) ELSE Frac(100 * gc, den)

RECURSIVE SumGCPercent(_, _)
SumGCPercent(recs, m) ==
    IF recs = <<>> THEN Frac(0, 1)
    ELSE FracAdd(GCPercentOrZero(Head(recs).seq, m), SumGCPercent(Tail(recs), m))

RECURSIVE SumLength(_)
SumLength(recs) == IF recs = <<>> THEN 0 ELSE Len(Head(recs).seq) + SumLength(Tail(recs))

StatsRan == fn = "get_sequence_stats" /\ pc = "done" /\ file_format # NoFormat

\* C9 as stated: get_sequence_stats reads every record and returns
\* average_gc_content = (sum over all records of GC%, undefined as 0) / count
\* and average_length = total bases / count, both 0.0 without error when
\* there is no record.
C9_Original ==
    LET recs == arg.content.upstream
        N == Len(recs)
    IN /\ (StatsRan /\ arg.mode \in ValidModes /\ N > 0) =>
             /\ err = NoError
             /\ pulled = N /\ result.total_sequences = N
             /\ result.average_gc_content = FracDiv(SumGCPercent(recs, arg.mode), N)
             /\ result.average_length = Frac(SumLength(recs), N)
       /\ (StatsRan /\ N = 0) =>
             /\ err = NoError
             /\ result.average_gc_content = Frac(0, 1)
             /\ result.average_length = Frac(0, 1)

\* C9 (amended): as C9_Original, the two averages being the quotients rounded
\* to two decimal places.
C9_RoundedAverages ==
    LET recs == arg.content.upstream
        N == Len(recs)
    IN /\ (StatsRan /\ arg.mode \in ValidModes /\ N > 0) =>
             /\ err = NoError
             /\ pulled = N /\ result.total_sequences = N
             /\ result.average_gc_content = Round2(FracDiv(SumGCPercent(recs, arg.mode), N))
             /\ result.average_length = Round2(Frac(SumLength(recs), N))
       /\ (StatsRan /\ N = 0) =>
             /\ err = NoError
             /\ result.average_gc_content = Frac(0, 1)
             /\ result.average_length = Frac(0, 1)

\* three records, two of them with undefined GC, have been averaged: 100/3
C9_Witness ==
    /\ StatsRan /\ err = NoError /\ arg.mode = "canonical"
    /\ result.total_sequences = 3
    /\ \E i \in 1..3 : gc_fraction(arg.content.upstream[i].seq, arg.mode) = None
    /\ result.average_gc_content = Frac(3333, 100)

----------------------------------------------------------------------------
(* process_fastq_stream and process_fasta_like_stream *)

\* the row process_fastq_stream appends for a raw record
FastqRow(record_id, record, comp, gc) ==
    [ID |-> record_id,
     Title |-> record.title,
     Sequence |-> record.seq,
     Quality |-> record.qual,
     Length |-> Len(record.seq),
     GC_percent |-> IF gc = None THEN None ELSE Percent(gc),
     Avg_quality |-> IF record.qual # <<>>
                     THEN Frac(SumScores(record.qual), Len(record.qual))
                     ELSE Frac(0, 1),
     A |-> comp.counts.A, T |-> comp.counts.T, G |-> comp.counts.G,
     C |-> comp.counts.C, N |-> comp.counts.N, AMB |-> comp.counts.AMB,
     denom_used |-> comp.denom]

\* the row process_fasta_like_stream appends for a raw record
FastaLikeRow(record, comp, gc) ==
    [ID |-> record.id,
     Description |-> record.title,
     Sequence |-> record.seq,
     Length |-> Len(record.seq),
     GC_percent |-> IF gc = None THEN None ELSE Percent(gc),
     A |-> comp.counts.A, T |-> comp.counts.T, G |-> comp.counts.G,
     C |-> comp.counts.C, N |-> comp.counts.N, AMB |-> comp.counts.AMB,
     denom_used |-> comp.denom,
     First_base |-> IF record.seq # <<>> THEN record.seq[1] ELSE "",
     Last_base |-> IF record.seq # <<>> THEN record.seq[Len(record.seq)] ELSE ""]

\* one iteration of the loop of process_fastq_stream, or its end when the
\* parser is exhausted
process_fastq_stream ==
    /\ fn \in {"filter_fastq", "process_sequences_universal"}
    /\ pc = "iter" /\ file_format = "fastq"
    /\ IF pulled = Len(ParserRecords)
       THEN /\ ParserEnds
            /\ UNCHANGED <<pulled, rows, kept>>
       ELSE LET record == ParserRecords[pulled + 1]
                pieces == SplitFirst(record.title)
                record_id == pieces[1]
                comp == atgc_content(record.seq, arg.mode)
                gc == gc_fraction(record.seq, arg.mode)
            IN /\ pulled' = pulled + 1
               /\ IF pieces = <<>>
                  THEN Raise(IndexError) /\ UNCHANGED <<rows, kept>>
                  ELSE IF wanted_ids # None /\ record_id \notin wanted_ids.elems
                  THEN UNCHANGED <<pc, rows, kept, err, result>>
                  ELSE IF Raises(comp)
                  THEN Raise(comp.raise) /\ UNCHANGED <<rows, kept>>
                  ELSE /\ rows' = Append(rows, FastqRow(record_id, record, comp, gc))
                       /\ kept' = kept + 1
                       /\ pc' = IF kept + 1 >= arg.max_records THEN "return" ELSE "iter"
                       /\ UNCHANGED <<err, result>>
    /\ UNCHANGED <<fn, arg, compression, file_format, offset, wanted_ids,
                   total_bases, total_gc_percent, count>>

\* one iteration of the loop of process_fasta_like_stream, or its end when
\* the parser is exhausted
process_fasta_like_stream ==
    /\ fn = "process_sequences_universal"
    /\ pc = "iter" /\ file_format # "fastq"
    /\ IF pulled = Len(ParserRecords)
       THEN /\ ParserEnds
            /\ UNCHANGED <<pulled, rows>>
       ELSE LET record == ParserRecords[pulled + 1]
                i == pulled + 1
                comp == atgc_content(record.seq, arg.mode)
                gc == gc_fraction(record.seq, arg.mode)
            IN /\ pulled' = pulled + 1
               /\ IF i > arg.max_records
                  THEN pc' = "return" /\ UNCHANGED <<rows, err, result>>
                  ELSE IF Raises(comp)
                  THEN Raise(comp.raise) /\ UNCHANGED rows
                  ELSE /\ rows' = Append(rows, FastaLikeRow(record, comp, gc))
                       /\ UNCHANGED <<pc, err, result>>
    /\ UNCHANGED <<fn, arg, compression, file_format, offset, wanted_ids, kept,
                   total_bases, total_gc_percent, count>>

----------------------------------------------------------------------------
(* filter_fastq *)

InitFilter ==
    /\ fn = "filter_fastq"
    /\ \E filename \in FileNames, m \in Modes, c \in Caps :
         \E content \in Contents(filename) :
            \E f \in FilterStrings :
               arg = [content |-> content, filename |-> filename,
                      filter_ids |-> f, mode |-> m, max_records |-> c]
    /\ InitLocals

\* the format check, _parse_id_list and open_text_handle
filter_fastq_open ==
    /\ fn = "filter_fastq" /\ pc = "call"
    /\ file_format' = detect_file_format(arg.filename)
    /\ IF file_format' # "fastq"
       THEN Raise(InvalidOperation) /\ UNCHANGED <<wanted_ids, compression>>
       ELSE /\ wanted_ids' = _parse_id_list(arg.filter_ids)
            /\ compression' = detect_compression_from_bytes(arg.content.data)
            /\ pc' = "iter"
            /\ UNCHANGED <<err, result>>
    /\ UNCHANGED <<fn, arg, offset, pulled, rows, kept, total_bases,
                   total_gc_percent, count>>

filter_fastq_return ==
    /\ fn = "filter_fastq" /\ pc = "return"
    /\ Return([filename |-> arg.filename,
               format |-> file_format,
               compression |-> compression,
               total_sequences |-> Len(rows),
               filtered |-> wanted_ids # None,
               filter_count |-> IF wanted_ids # None
                                THEN Cardinality(wanted_ids.elems) ELSE 0,
               sequences |-> rows])
    /\ UNCHANGED <<fn, arg, locals>>

NextFilter ==
    \/ filter_fastq_open
    \/ process_fastq_stream
    \/ filter_fastq_return

SpecFilter == InitFilter /\ [][NextFilter]_vars

----------------------------------------------------------------------------
(* process_sequences_universal *)

InitUniversal ==
    /\ fn = "process_sequences_universal"
    /\ \E filename \in FileNames, m \in Modes, c \in Caps :
         \E content \in Contents(filename) :
            arg = [content |-> content, filename |-> filename,
                   mode |-> m, max_records |-> c]
    /\ InitLocals

process_sequences_universal_open ==
    /\ fn = "process_sequences_universal" /\ pc = "call"
    /\ compression' = detect_compression_from_bytes(arg.content.data)
    /\ LET r == resolve_format(arg.filename, arg.content.text)
       IN /\ file_format' = r.file_format
          /\ offset' = r.offset
          /\ IF r.file_format = NoFormat
             THEN Raise(UnresolvedFormat)
             ELSE pc' = "iter" /\ UNCHANGED <<err, result>>
    /\ UNCHANGED <<fn, arg, wanted_ids, pulled, rows, kept, total_bases,
                   total_gc_percent, count>>

RECURSIVE SumRowLength(_)
SumRowLength(rs) == IF rs = <<>> THEN 0 ELSE Head(rs).Length + SumRowLength(Tail(rs))

process_sequences_universal_return ==
    /\ fn = "process_sequences_universal" /\ pc = "return"
    /\ Return([filename |-> arg.filename,
               format |-> file_format,
               compression |-> compression,
               total_sequences |-> Len(rows),
               total_bases |-> SumRowLength(rows),
               sequences |-> rows])
    /\ UNCHANGED <<fn, arg, locals>>

NextUniversal ==
    \/ process_sequences_universal_open
    \/ process_fastq_stream
    \/ process_fasta_like_stream
    \/ process_sequences_universal_return

SpecUniversal == InitUniversal /\ [][NextUniversal]_vars

----------------------------------------------------------------------------
(* The three pipelines together *)

Init == InitStats \/ InitFilter \/ InitUniversal

Next ==
    \/ get_sequence_stats_open
    \/ get_sequence_stats_fastq_loop
    \/ get_sequence_stats_seqio_loop
    \/ get_sequence_stats_return
    \/ filter_fastq_open
    \/ process_fastq_stream
    \/ filter_fastq_return
    \/ process_sequences_universal_open
    \/ process_fasta_like_stream
    \/ process_sequences_universal_return

Spec == Init /\ [][Next]_vars

----------------------------------------------------------------------------
(* The claims about the pipelines *)

Min(a, b) == IF a < b THEN a ELSE b

\* row is the output row of raw record rec
RowOf(row, rec) ==
    /\ row.Sequence = rec.seq
    /\ row.Length = Len(rec.seq)
    /\ IF file_format = "fastq"
       THEN row.Title = rec.title /\ row.Quality = rec.qual
       ELSE row.ID = rec.id /\ row.Description = rec.title

\* rs are the output rows of the first k records of recs, in order
RowsOfFirst(rs, recs, k) ==
    /\ Len(rs) = k
    /\ \A i \in 1..k : RowOf(rs[i], recs[i])

\* C1: for N upstream records and a cap c >= 1, process_sequences_universal
\* returns exactly min(N, c) rows, those of the first min(N, c) upstream
\* records in upstream order, on the FASTQ and on the FASTA-like path.
C1_CapReturnsFirstRecords ==
    (/\ fn = "process_sequences_universal" /\ pc = "done"
     /\ file_format # NoFormat /\ arg.mode \in ValidModes) =>
        LET recs == arg.content.upstream
        IN /\ err = NoError
           /\ RowsOfFirst(result.sequences, recs, Min(Len(recs), arg.max_records))

\* the identifier of a FASTQ header as the specification words it: its first
\* whitespace-delimited token (none, the empty string, in a blank header)
FirstToken(title) == UntilWhitespace(LStrip(title))

\* C2: with a non-empty wanted set W and a cap c >= 1, filter_fastq returns
\* the rows of the first min(c, M) upstream records whose ID is in W, in
\* upstream order, M being the number of such records; records whose ID is
\* not in W are skipped and do not count toward the cap.
C2_FilterReturnsFirstMatches ==
    (/\ fn = "filter_fastq" /\ pc = "done" /\ file_format = "fastq"
     /\ arg.mode \in ValidModes /\ wanted_ids # None) =>
        LET W == wanted_ids.elems
            Wanted(rec) == FirstToken(rec.title) \in W
            matches == SelectSeq(arg.content.upstream, Wanted)
        IN /\ err = NoError
           /\ \A i \in DOMAIN result.sequences : result.sequences[i].ID \in W
           /\ RowsOfFirst(result.sequences, matches, Min(Len(matches), arg.max_records))

\* C3: a file name with a recognized format suffix followed by a compression
\* suffix resolves, in all three pipelines, to the format of the inner
\* suffix, whatever the magic bytes of the content.
C3_InnerSuffixResolves ==
    (/\ pc # "call"
     /\ \E z \in CompressionSuffixes : EndsWith(Lower(arg.filename), z)
     /\ NamedFormat(arg.filename) # NoFormat) =>
        /\ file_format = NamedFormat(arg.filename)
        /\ err \notin {UnresolvedFormat, InvalidOperation}

\* C4: in every pipeline and for every input, a mode outside {canonical, raw}
\* raises the invalid-mode error before any record is pulled from the parser.
C4_InvalidModeBeforeParsing ==
    (arg.mode \notin ValidModes) =>
        /\ pulled = 0
        /\ (pc = "done" /\ err \notin {UnresolvedFormat, InvalidOperation}) =>
              err = InvalidMode

\* C5: filter_fastq raises the invalid-operation error, before any record is
\* pulled, exactly when the format resolved for the input (extension first,
\* otherwise a sniff of the decoded prefix) is not Fastq.
C5_RejectsExactlyNonFastq ==
    (fn = "filter_fastq" /\ pc # "call") =>
        /\ (err = InvalidOperation) <=>
              (resolve_format(arg.filename, arg.content.text).file_format # "fastq")
        /\ (err = InvalidOperation) => pulled = 0

QualityColumns ==
    {"Avg_quality", "Min_quality", "Max_quality",
     "Q20_bases", "Q30_bases", "Q20_percent", "Q30_percent"}

Scores(qual) == {Ord(qual[i]) - 33 : i \in DOMAIN qual}

AtLeast(qual, q) == Cardinality({i \in DOMAIN qual : Ord(qual[i]) - 33 >= q})

\* C6: every FASTQ output row carries, besides the average, the minimum and
\* maximum Phred score and the count and percentage of bases with score
\* >= 20 and >= 30, each score being ord(char) - 33.
C6_RowsCarryPhredStatistics ==
    (fn \in {"filter_fastq", "process_sequences_universal"} /\ file_format = "fastq") =>
        \A i \in DOMAIN rows :
            LET row == rows[i]
                qual == row.Quality
            IN /\ QualityColumns \subseteq DOMAIN row
               /\ qual # <<>> =>
                     /\ row.Min_quality \in Scores(qual)
                     /\ \A x \in Scores(qual) : row.Min_quality <= x /\ x <= row.Max_quality
                     /\ row.Max_quality \in Scores(qual)
                     /\ row.Q20_bases = AtLeast(qual, 20)
                     /\ row.Q30_bases = AtLeast(qual, 30)
                     /\ row.Q20_percent = Frac(100 * AtLeast(qual, 20), Len(qual))
                     /\ row.Q30_percent = Frac(100 * AtLeast(qual, 30), Len(qual))

Delimiters == {","} \cup Whitespace

\* the maximal runs of non-delimiter characters of a filter string
Tokens(s) ==
    IF s = NoString THEN {}
    ELSE { SubSeq(s, i, j) : <<i, j>> \in
             { p \in (1..Len(s)) \X (1..Len(s)) :
                 /\ p[1] <= p[2]
                 /\ \A k \in p[1]..p[2] : s[k] \notin Delimiters
                 /\ p[1] = 1 \/ s[p[1] - 1] \in Delimiters
                 /\ p[2] = Len(s) \/ s[p[2] + 1] \in Delimiters } }

\* C7: _parse_id_list splits on any mix of commas, whitespace (spaces, tabs,
\* carriage returns) and newlines: no returned token is empty or contains a
\* comma or a whitespace character, and every maximal run of non-delimiter
\* characters of the input is returned.
C7_SplitsOnCommasAndWhitespace ==
    (fn = "_parse_id_list" /\ pc = "done") =>
        LET ids == IF result = None THEN {} ELSE result.elems
        IN /\ \A t \in ids : t # <<>> /\ \A k \in DOMAIN t : t[k] \notin Delimiters
           /\ Tokens(arg.filter_ids) \subseteq ids

\* C8: with the filter string absent, empty or made of delimiters only,
\* filter_fastq returns the first min(N, cap) upstream records with filtered
\* = false and filter_count = 0; with at least one token, filtered = true and
\* filter_count is the number of distinct tokens.
C8_FilterBookkeeping ==
    (/\ fn = "filter_fastq" /\ pc = "done" /\ file_format = "fastq"
     /\ arg.mode \in ValidModes) =>
        LET toks == Tokens(arg.filter_ids)
            recs == arg.content.upstream
        IN /\ err = NoError
           /\ toks = {} =>
                 /\ result.filtered = FALSE
                 /\ result.filter_count = 0
                 /\ RowsOfFirst(result.sequences, recs, Min(Len(recs), arg.max_records))
           /\ toks # {} =>
                 /\ result.filtered = TRUE
                 /\ result.filter_count = Cardinality(toks)

----------------------------------------------------------------------------
(* atgc_content on its own, and the rows process_sequences_universal builds *)

InitRows == InitComp \/ InitUniversal

NextRows ==
    \/ atgc_content_call
    \/ process_sequences_universal_open
    \/ process_fastq_stream
    \/ process_fasta_like_stream
    \/ process_sequences_universal_return

SpecRows == InitRows /\ [][NextRows]_vars

\* the denominator of a sequence as the specification words it
Denominator(seq, m) ==
    LET norm == Normalized(seq)
    IN IF m = "raw" THEN Len(norm)
       ELSE Cardinality({i \in DOMAIN norm : norm[i] \in {"A", "T", "G", "C"}})

\* C11: in both modes the A/T/G/C fractions and the GC fraction are defined
\* (not None) if and only if denom > 0; with denom = 0 (empty sequence, or
\* nothing but N/ambiguous characters in canonical mode) they are all None
\* and the GC_percent of the output row is None, never a numeric 0.
C11_DefinedIffDenomPositive ==
    /\ (fn = "atgc_content" /\ pc = "done" /\ arg.mode \in ValidModes) =>
          /\ result.denom = Denominator(arg.seq, arg.mode)
          /\ \A b \in {"A", "T", "G", "C"} :
                (result.fractions[b] # None) <=> (result.denom > 0)
    /\ (fn = "process_sequences_universal") =>
          \A i \in DOMAIN rows :
              LET den == Denominator(rows[i].Sequence, arg.mode)
              IN /\ rows[i].denom_used = den
                 /\ (rows[i].GC_percent # None) <=> (den > 0)
                 /\ den > 0 =>
                       rows[i].GC_percent = GCPercentOrZero(rows[i].Sequence, arg.mode)

\* a row has been built for an all-N sequence in canonical mode: its
\* denominator is 0 and its GC_percent is None
C11_Witness ==
    /\ fn = "process_sequences_universal" /\ arg.mode = "canonical"
    /\ \E i \in DOMAIN rows :
          /\ rows[i].Sequence = <<"N">>
          /\ rows[i].denom_used = 0
          /\ rows[i].GC_percent = None


----------------------------------------------------------------------------
(* Sniffing: the two pipelines that sniff, on uploads whose name does not   *)
(* tell the format, with text heads on both sides of the sniff length.      *)

Blank(n) == [i \in 1..n |-> "\n"]

\* a marker that is the last character of the sniffed prefix, and one that
\* is the first character after it
LongTextHeads ==
    { Blank(SniffLen - 1) \o <<"@">>, Blank(SniffLen) \o <<">">> }

UnnamedFiles == {f \in FileNames : detect_file_format(f) = NoFormat}

InitSniff ==
    /\ fn \in {"get_sequence_stats", "process_sequences_universal"}
    /\ \E filename \in UnnamedFiles, m \in Modes :
         \E content \in ContentsOver(filename, TextHeads \cup LongTextHeads, {FALSE}) :
            \/ /\ fn = "get_sequence_stats"
               /\ arg = [content |-> content, filename |-> filename, mode |-> m]
            \/ /\ fn = "process_sequences_universal"
               /\ \E c \in Caps :
                    arg = [content |-> content, filename |-> filename,
                           mode |-> m, max_records |-> c]
    /\ InitLocals

NextSniff ==
    \/ get_sequence_stats_open
    \/ get_sequence_stats_fastq_loop
    \/ get_sequence_stats_seqio_loop
    \/ get_sequence_stats_return
    \/ process_sequences_universal_open
    \/ process_fastq_stream
    \/ process_fasta_like_stream
    \/ process_sequences_universal_return

SpecSniff == InitSniff /\ [][NextSniff]_vars

\* the format that the first non-whitespace character among the first 2048
\* characters of the text stands for
SniffedFormat(text) ==
    LET n == Min(Len(text), 2048)
        visible == {i \in 1..n : text[i] \notin Whitespace}
        first == CHOOSE i \in visible : \A j \in 1..(i - 1) : text[j] \in Whitespace
    IN IF visible = {} THEN NoFormat
       ELSE IF text[first] = ">" THEN "fasta"
       ELSE IF text[first] = "@" THEN "fastq"
       ELSE NoFormat

\* C12: when the file name does not tell the format, get_sequence_stats and
\* process_sequences_universal take it from the first non-whitespace
\* character of the first 2048 characters of the text (">" FASTA, "@"
\* FASTQ); otherwise they raise without parsing anything; after a sniff the
\* stream is back at offset 0, so that parsing starts at the first record.
C12_SniffThenRewind ==
    (/\ fn \in {"get_sequence_stats", "process_sequences_universal"}
     /\ detect_file_format(arg.filename) = NoFormat
     /\ pc # "call")
    => LET expected == SniffedFormat(arg.content.text)
           upstream == arg.content.upstream
       IN /\ file_format = expected
          /\ expected = NoFormat =>
                /\ pc = "done" /\ err = UnresolvedFormat /\ result = None
                /\ pulled = 0 /\ rows = <<>> /\ count = 0
          /\ expected # NoFormat =>
                /\ offset = 0
                /\ err # UnresolvedFormat
                /\ pc \in {"return", "done"} => pulled >= 1
                /\ (fn = "process_sequences_universal" /\ rows # <<>>)
                      => RowOf(rows[1], upstream[1])
                /\ (fn = "get_sequence_stats" /\ pulled = 1)
                      => total_bases = Len(upstream[1].seq)

\* a FASTQ text found behind leading blank lines, read from its first record
C12_Witness ==
    /\ fn = "process_sequences_universal" /\ pc = "done" /\ err = NoError
    /\ detect_file_format(arg.filename) = NoFormat
    /\ arg.content.text = <<"\n", "@">>
    /\ file_format = "fastq" /\ offset = 0
    /\ rows # <<>> /\ RowOf(rows[1], arg.content.upstream[1])

----------------------------------------------------------------------------
(* The cap: process_sequences_universal on uploads that may go on with a    *)
(* malformed record after their well-formed ones.                           *)

InitCap ==
    /\ fn = "process_sequences_universal"
    /\ \E filename \in FileNames, m \in Modes, c \in Caps :
         \E content \in ContentsOver(filename, TextHeads, BOOLEAN) :
            arg = [content |-> content, filename |-> filename,
                   mode |-> m, max_records |-> c]
    /\ InitLocals

NextCap ==
    \/ process_sequences_universal_open
    \/ process_fastq_stream
    \/ process_fasta_like_stream
    \/ process_sequences_universal_return

SpecCap == InitCap /\ [][NextCap]_vars

\* C13: with a cap c >= 1 and no identifier filter, at most c raw records are
\* pulled from the parser, in the FASTA-like and in the FASTQ stream alike;
\* a malformed record after the c-th one never raises the parser's error.
C13_PullsAtMostCap ==
    (fn = "process_sequences_universal" /\ wanted_ids = None) =>
        /\ pulled <= arg.max_records
        /\ Len(arg.content.upstream) >= arg.max_records
              => err # UpstreamParseError

----------------------------------------------------------------------------
(* The identifier of a FASTQ record *)

\* C14: every raw FASTQ record pulled from the parser, a record with a blank
\* header included, is skipped (identifier not wanted) or gives exactly one
\* row, and the extraction of its identifier raises nothing.
C14_FastqRecordSkippedOrEmitted ==
    (/\ fn \in {"filter_fastq", "process_sequences_universal"}
     /\ file_format = "fastq" /\ pc # "call"
     /\ arg.mode \in ValidModes) =>
        LET Wanted(i) ==
                \/ wanted_ids = None
                \/ FirstToken(arg.content.upstream[i].title) \in wanted_ids.elems
        IN /\ err # IndexError
           /\ Len(rows) = Cardinality({i \in 1..pulled : Wanted(i)})
====
